---- MODULE Spec2Model ----
(***************************************************************************)
(* Model of the Gmail rule processor's rule engine                         *)
(* (src/gmail_rule_processor/rule_engine.py) and of the collaborators it   *)
(* drives.                                                                 *)
(*                                                                         *)
(* Python values are tagged records, strings are sequences of one-letter   *)
(* strings, so that lower(), the substring test, int() and truthiness are  *)
(* computed rather than assumed.  A function either returns a value or     *)
(* raises an exception; both outcomes are values of the model.             *)
(***************************************************************************)
EXTENDS Integers, Sequences, FiniteSets, TLC

VARIABLES
    email,          \* the email dictionary handed to evaluate_condition
    condition,      \* the condition dictionary handed to validate_/evaluate_condition
    now,            \* the reading of datetime.now(timezone.utc), in ticks
    outcome,        \* what the called function returned or raised
    pc,             \* position of the call or of the run of apply_rules
    rule_file,      \* content of the rules file
    store,          \* rows of the emails table, in the order get_all_emails reads them
    gmail,          \* the provider: unread messages, labels, labels put on messages
    predicate_type, \* apply_rules / _find_matching_emails: predicate_type
    conditions,     \* apply_rules / _find_matching_emails: conditions
    actions,        \* apply_rules: actions
    emails,         \* apply_rules / _find_matching_emails: emails
    matched_emails, \* apply_rules: matched_emails
    idx,            \* apply_rules: position of the action loop in matched_emails
    calls,          \* the invocations of perform_actions so far, in order
    reads,          \* number of times the emails table was read
    msg_data        \* the provider's message handed to _parse_email_data

callVars == <<email, condition, outcome>>
runVars == <<rule_file, store, gmail, actions, matched_emails, idx, calls, reads, msg_data>>
matchVars == <<predicate_type, conditions, emails>>
vars == <<email, condition, now, outcome, pc, rule_file, store, gmail, predicate_type,
          conditions, actions, emails, matched_emails, idx, calls, reads, msg_data>>

----------------------------------------------------------------------------
(* Bounds of the model *)

MaxStrLen == 2      \* longest text drawn for an email field or a condition value
MaxEmails == 2      \* longest email list
MaxConditions == 2  \* longest condition list
MaxActions == 3     \* longest action list handed to perform_actions
MaxTick == 6        \* timestamps and clock readings range over 0..MaxTick
TicksPerDay == 2    \* clock resolution: ticks in one day

----------------------------------------------------------------------------
(* Python values *)

PyStr(s) == [t |-> "str", s |-> s]
PyInt(n) == [t |-> "int", n |-> n]
PyBool(b) == [t |-> "bool", b |-> b]
PyNone == [t |-> "none"]
\* a string in ISO-8601 form, named by the datetime that fromisoformat yields
PyIso(aware, tick) == [t |-> "iso", aware |-> aware, tick |-> tick]

IsStr(v) == v.t \in {"str", "iso"}

\* `not value`
Falsy(v) ==
    \/ v.t = "none"
    \/ v.t = "str" /\ v.s = <<>>
    \/ v.t = "int" /\ v.n = 0
    \/ v.t = "bool" /\ ~v.b

\* outcomes of a call
Return(v) == [kind |-> "return", val |-> v]
Raise(exc, msg) == [kind |-> "raise", exc |-> exc, msg |-> msg]
Returned(o) == o.kind = "return"
Raised(o) == o.kind = "raise"

----------------------------------------------------------------------------
(* str.lower, the `in` test on strings, int() *)

UpperLetters == <<"A","B","C","D","E","F","G","H","I","J","K","L","M",
                  "N","O","P","Q","R","S","T","U","V","W","X","Y","Z">>
LowerLetters == <<"a","b","c","d","e","f","g","h","i","j","k","l","m",
                  "n","o","p","q","r","s","t","u","v","w","x","y","z">>
Digits == <<"0","1","2","3","4","5","6","7","8","9">>

LowerChar(c) ==
    IF \E i \in 1..Len(UpperLetters) : UpperLetters[i] = c
    THEN LowerLetters[CHOOSE i \in 1..Len(UpperLetters) : UpperLetters[i] = c]
    ELSE c

\* s.lower()
Lower(s) == [i \in 1..Len(s) |-> LowerChar(s[i])]

\* a in b, for strings
IsSubstring(a, b) ==
    \E i \in 0..(Len(b) - Len(a)) : SubSeq(b, i + 1, i + Len(a)) = a

IsDigit(c) == \E i \in 1..Len(Digits) : Digits[i] = c
DigitVal(c) == (CHOOSE i \in 1..Len(Digits) : Digits[i] = c) - 1

RECURSIVE DigitsVal(_)
DigitsVal(s) ==
    IF s = <<>> THEN 0
    ELSE 10 * DigitsVal(SubSeq(s, 1, Len(s) - 1)) + DigitVal(s[Len(s)])

RECURSIVE Strip(_)
Strip(s) ==
    IF s # <<>> /\ Head(s) = " " THEN Strip(Tail(s))
    ELSE IF s # <<>> /\ s[Len(s)] = " " THEN Strip(SubSeq(s, 1, Len(s) - 1))
    ELSE s

\* int(v): surrounding blanks are dropped, then an optional sign and one or
\* more digits; anything else is a ValueError, a non-number a TypeError
PyIntOf(v) ==
    IF v.t = "int" THEN Return(v.n)
    ELSE IF v.t = "bool" THEN Return(IF v.b THEN 1 ELSE 0)
    ELSE IF v.t = "str" THEN
        LET s == Strip(v.s)
            signed == s # <<>> /\ Head(s) \in {"-", "+"}
            body == IF signed THEN Tail(s) ELSE s
        IN  IF body # <<>> /\ \A i \in 1..Len(body) : IsDigit(body[i])
            THEN Return(IF signed /\ Head(s) = "-" THEN 0 - DigitsVal(body)
                        ELSE DigitsVal(body))
            ELSE Raise("ValueError", <<"invalid literal for int()">>)
    ELSE IF v.t = "iso" THEN Raise("ValueError", <<"invalid literal for int()">>)
    ELSE Raise("TypeError", <<"int() argument">>)

----------------------------------------------------------------------------
(* config.py *)

SUPPORTED_FIELDS == <<"sender", "subject", "body", "received_at", "is_read">>
SUPPORTED_PREDICATES == <<"contains", "not_contains", "equals", "not_equals",
                          "less_than_days", "greater_than_days">>

\* x in list
InList(x, list) == \E i \in 1..Len(list) : list[i] = x

----------------------------------------------------------------------------
(* rule_engine.py: validate_condition *)

required_fields == <<"field", "predicate", "value">>

\* faulty variant: the emptiness check on value is left out
validate_condition_no_empty_check(cond) ==
    IF \E i \in 1..Len(required_fields) : required_fields[i] \notin DOMAIN cond
    THEN LET first == CHOOSE i \in 1..Len(required_fields) :
                          /\ required_fields[i] \notin DOMAIN cond
                          /\ \A j \in 1..(i - 1) : required_fields[j] \in DOMAIN cond
         IN  Raise("RuleEngineError", <<"Condition missing required field", required_fields[first]>>)
    ELSE IF ~InList(cond.field, SUPPORTED_FIELDS)
    THEN Raise("RuleEngineError", <<"Unsupported field", cond.field>>)
    ELSE IF ~InList(cond.predicate, SUPPORTED_PREDICATES)
    THEN Raise("RuleEngineError", <<"Unsupported predicate", cond.predicate>>)
    ELSE Return(PyNone)

validate_condition(cond) ==
    IF \E i \in 1..Len(required_fields) : required_fields[i] \notin DOMAIN cond
    THEN LET first == CHOOSE i \in 1..Len(required_fields) :
                          /\ required_fields[i] \notin DOMAIN cond
                          /\ \A j \in 1..(i - 1) : required_fields[j] \in DOMAIN cond
         IN  Raise("RuleEngineError", <<"Condition missing required field", required_fields[first]>>)
    ELSE IF ~InList(cond.field, SUPPORTED_FIELDS)
    THEN Raise("RuleEngineError", <<"Unsupported field", cond.field>>)
    ELSE IF ~InList(cond.predicate, SUPPORTED_PREDICATES)
    THEN Raise("RuleEngineError", <<"Unsupported predicate", cond.predicate>>)
    ELSE IF Falsy(cond.value)
    THEN Raise("RuleEngineError", <<"Condition value cannot be empty">>)
    ELSE Return(PyNone)

----------------------------------------------------------------------------
(* rule_engine.py: the three evaluators *)

\* datetime.fromisoformat(email_value)
FromIsoFormat(v) ==
    IF v.t = "iso" THEN Return(v)
    ELSE IF v.t = "str" THEN Raise("ValueError", <<"Invalid isoformat string">>)
    ELSE Raise("TypeError", <<"fromisoformat: argument must be str">>)

\* faulty variant: a datetime without zone is compared as if it were UTC
DateLess_zone_ignored(aTick, aAware, bTick, bAware) == Return(aTick < bTick)

\* a < b on datetimes: an aware and a naive one do not compare
DateLess(aTick, aAware, bTick, bAware) ==
    IF aAware = bAware THEN Return(aTick < bTick)
    ELSE Raise("TypeError", <<"can't compare offset-naive and offset-aware datetimes">>)

\* what the except clause of _evaluate_date_condition does with an outcome
CatchValueTypeError(o) ==
    IF Raised(o) /\ o.exc \in {"ValueError", "TypeError"} THEN Return(FALSE) ELSE o

\* faulty variant: the two comparisons with the cutoff are not strict
_evaluate_date_condition_inclusive(email_value, predicate, value, clock) ==
    LET email_date == FromIsoFormat(email_value)
        days == PyIntOf(value)
        cutoff == clock - days.val * TicksPerDay
        body ==
            IF Raised(email_date) THEN email_date
            ELSE IF Raised(days) THEN days
            ELSE IF predicate = "less_than_days"
                 THEN DateLess(cutoff - 1, TRUE, email_date.val.tick, email_date.val.aware)
            ELSE IF predicate = "greater_than_days"
                 THEN DateLess(email_date.val.tick, email_date.val.aware, cutoff + 1, TRUE)
            ELSE Return(FALSE)
    IN  CatchValueTypeError(body)

\* faulty variant: a value that is no integer counts as zero days
_evaluate_date_condition_zero_days(email_value, predicate, value, clock) ==
    LET email_date == FromIsoFormat(email_value)
        days == PyIntOf(value)
        cutoff == IF Raised(days) THEN clock ELSE clock - days.val * TicksPerDay
        body ==
            IF Raised(email_date) THEN email_date
            ELSE IF predicate = "less_than_days"
                 THEN DateLess(cutoff, TRUE, email_date.val.tick, email_date.val.aware)
            ELSE IF predicate = "greater_than_days"
                 THEN DateLess(email_date.val.tick, email_date.val.aware, cutoff, TRUE)
            ELSE Return(FALSE)
    IN  CatchValueTypeError(body)

\* faulty variant: only a text is read as a day count
_evaluate_date_condition_text_days(email_value, predicate, value, clock) ==
    LET email_date == FromIsoFormat(email_value)
        days == IF value.t = "str" THEN PyIntOf(value)
                ELSE Raise("TypeError", <<"int() argument">>)
        cutoff == clock - days.val * TicksPerDay
        body ==
            IF Raised(email_date) THEN email_date
            ELSE IF Raised(days) THEN days
            ELSE IF predicate = "less_than_days"
                 THEN DateLess(cutoff, TRUE, email_date.val.tick, email_date.val.aware)
            ELSE IF predicate = "greater_than_days"
                 THEN DateLess(email_date.val.tick, email_date.val.aware, cutoff, TRUE)
            ELSE Return(FALSE)
    IN  CatchValueTypeError(body)

_evaluate_date_condition(email_value, predicate, value, clock) ==
    LET email_date == FromIsoFormat(email_value)
        days == PyIntOf(value)
        cutoff == clock - days.val * TicksPerDay
        body ==
            IF Raised(email_date) THEN email_date
            ELSE IF Raised(days) THEN days
            ELSE IF predicate = "less_than_days"
                 THEN DateLess(cutoff, TRUE, email_date.val.tick, email_date.val.aware)
            ELSE IF predicate = "greater_than_days"
                 THEN DateLess(email_date.val.tick, email_date.val.aware, cutoff, TRUE)
            ELSE Return(FALSE)
    IN  CatchValueTypeError(body)

\* value.lower(), for any Python value
PyLower(v) ==
    IF v.t = "str" THEN Return(Lower(v.s))
    ELSE IF v.t = "iso" THEN Return(<<"<iso-8601 text>">>)
    ELSE Raise("AttributeError", <<"object has no attribute 'lower'">>)

TRUE_LITERAL == <<"t", "r", "u", "e">>

\* email_value == expected_value, the right-hand side a bool
PyEqBool(v, b) ==
    \/ v.t = "bool" /\ v.b = b
    \/ v.t = "int" /\ v.n = (IF b THEN 1 ELSE 0)

\* what `except Exception` of _evaluate_boolean_condition does with an outcome
CatchAll(o) == IF Raised(o) THEN Return(FALSE) ELSE o

\* faulty variant: the condition value is compared with 'true' without lower()
_evaluate_boolean_condition_case_sensitive(email_value, predicate, value) ==
    LET expected_value == value.t = "str" /\ value.s = TRUE_LITERAL
        body ==
            IF ~IsStr(value) THEN PyLower(value)
            ELSE IF predicate = "equals" THEN Return(PyEqBool(email_value, expected_value))
            ELSE IF predicate = "not_equals" THEN Return(~PyEqBool(email_value, expected_value))
            ELSE Return(FALSE)
    IN  CatchAll(body)

_evaluate_boolean_condition(email_value, predicate, value) ==
    LET lowered == PyLower(value)
        expected_value == lowered.val = TRUE_LITERAL
        body ==
            IF Raised(lowered) THEN lowered
            ELSE IF predicate = "equals" THEN Return(PyEqBool(email_value, expected_value))
            ELSE IF predicate = "not_equals" THEN Return(~PyEqBool(email_value, expected_value))
            ELSE Return(FALSE)
    IN  CatchAll(body)

\* faulty variant: only the email value is lower-cased
_evaluate_text_condition_value_as_is(email_value, predicate, value) ==
    LET email_lower == Lower(email_value.s)
        value_lower == value.s
    IN  IF ~IsStr(value) THEN PyLower(value)
        ELSE IF predicate = "contains" THEN Return(IsSubstring(value_lower, email_lower))
        ELSE IF predicate = "not_contains" THEN Return(~IsSubstring(value_lower, email_lower))
        ELSE IF predicate = "equals" THEN Return(email_lower = value_lower)
        ELSE IF predicate = "not_equals" THEN Return(email_lower # value_lower)
        ELSE Return(FALSE)

\* faulty variant: the final else compares like not_equals
_evaluate_text_condition_else_differs(email_value, predicate, value) ==
    LET email_lower == Lower(email_value.s)
        value_low == PyLower(value)
        value_lower == value_low.val
    IN  IF Raised(value_low) THEN value_low
        ELSE IF predicate = "contains" THEN Return(IsSubstring(value_lower, email_lower))
        ELSE IF predicate = "not_contains" THEN Return(~IsSubstring(value_lower, email_lower))
        ELSE IF predicate = "equals" THEN Return(email_lower = value_lower)
        ELSE Return(email_lower # value_lower)

_evaluate_text_condition(email_value, predicate, value) ==
    LET email_lower == Lower(email_value.s)
        value_low == PyLower(value)
        value_lower == value_low.val
    IN  IF Raised(value_low) THEN value_low
        ELSE IF predicate = "contains" THEN Return(IsSubstring(value_lower, email_lower))
        ELSE IF predicate = "not_contains" THEN Return(~IsSubstring(value_lower, email_lower))
        ELSE IF predicate = "equals" THEN Return(email_lower = value_lower)
        ELSE IF predicate = "not_equals" THEN Return(email_lower # value_lower)
        ELSE Return(FALSE)

----------------------------------------------------------------------------
(* rule_engine.py: evaluate_condition *)

\* faulty variant: email.get(field, "")
Get_default_empty(mail, field) == IF field \in DOMAIN mail THEN mail[field] ELSE PyStr(<<>>)

\* email.get(field)
Get(mail, field) == IF field \in DOMAIN mail THEN mail[field] ELSE PyNone

\* the except clauses of evaluate_condition: a RuleEngineError is re-raised,
\* any other exception is logged and becomes False
\* faulty variant: every exception, the validation error too, becomes False
ReraiseRuleEngineError_swallow(o) == IF Raised(o) THEN Return(FALSE) ELSE o

ReraiseRuleEngineError(o) ==
    IF Raised(o) /\ o.exc # "RuleEngineError" THEN Return(FALSE) ELSE o

evaluate_condition(mail, cond, clock) ==
    LET valid == validate_condition(cond)
        email_value == Get(mail, cond.field)
        body ==
            IF Raised(valid) THEN valid
            ELSE IF cond.field = "received_at"
                 THEN _evaluate_date_condition(email_value, cond.predicate, cond.value, clock)
            ELSE IF cond.field = "is_read"
                 THEN _evaluate_boolean_condition(email_value, cond.predicate, cond.value)
            ELSE IF ~IsStr(email_value) THEN Return(FALSE)
            ELSE _evaluate_text_condition(email_value, cond.predicate, cond.value)
    IN  ReraiseRuleEngineError(body)

----------------------------------------------------------------------------
(* rule_engine.py: _find_matching_emails *)

\* [evaluate_condition(email, cond) for cond in conditions]
Results(mail, conds, clock) ==
    [j \in 1..Len(conds) |-> evaluate_condition(mail, conds[j], clock)]

\* the list comprehension stops at the first call that raises
FirstRaised(results) ==
    results[CHOOSE j \in 1..Len(results) :
                /\ Raised(results[j])
                /\ \A k \in 1..(j - 1) : ~Raised(results[k])]

\* all(results), any(results)
AllTrue(results) == \A j \in 1..Len(results) : results[j].val
AnyTrue(results) == \E j \in 1..Len(results) : results[j].val

\* faulty variant: an empty result list counts as no match
RECURSIVE MatchLoop_nonempty(_, _, _, _, _, _)
MatchLoop_nonempty(mails, conds, ptype, clock, i, matched) ==
    IF i > Len(mails) THEN Return(matched)
    ELSE LET results == Results(mails[i], conds, clock)
         IN  IF \E j \in 1..Len(results) : Raised(results[j]) THEN FirstRaised(results)
             ELSE IF ptype = "ALL" /\ results # <<>> /\ AllTrue(results)
                  THEN MatchLoop_nonempty(mails, conds, ptype, clock, i + 1, Append(matched, mails[i]))
             ELSE IF ptype = "ANY" /\ AnyTrue(results)
                  THEN MatchLoop_nonempty(mails, conds, ptype, clock, i + 1, Append(matched, mails[i]))
             ELSE MatchLoop_nonempty(mails, conds, ptype, clock, i + 1, matched)

_find_matching_emails_nonempty(mails, conds, ptype, clock) ==
    MatchLoop_nonempty(mails, conds, ptype, clock, 1, <<>>)

\* faulty variant: every predicate type other than ANY combines as ALL
RECURSIVE MatchLoop_all_by_default(_, _, _, _, _, _)
MatchLoop_all_by_default(mails, conds, ptype, clock, i, matched) ==
    IF i > Len(mails) THEN Return(matched)
    ELSE LET results == Results(mails[i], conds, clock)
         IN  IF \E j \in 1..Len(results) : Raised(results[j]) THEN FirstRaised(results)
             ELSE IF ptype # "ANY" /\ AllTrue(results)
                  THEN MatchLoop_all_by_default(mails, conds, ptype, clock, i + 1,
                                                Append(matched, mails[i]))
             ELSE IF ptype = "ANY" /\ AnyTrue(results)
                  THEN MatchLoop_all_by_default(mails, conds, ptype, clock, i + 1,
                                                Append(matched, mails[i]))
             ELSE MatchLoop_all_by_default(mails, conds, ptype, clock, i + 1, matched)

\* faulty variant: a match is put in front of the matches so far
RECURSIVE MatchLoop_newest_first(_, _, _, _, _, _)
MatchLoop_newest_first(mails, conds, ptype, clock, i, matched) ==
    IF i > Len(mails) THEN Return(matched)
    ELSE LET results == Results(mails[i], conds, clock)
         IN  IF \E j \in 1..Len(results) : Raised(results[j]) THEN FirstRaised(results)
             ELSE IF ptype = "ALL" /\ AllTrue(results)
                  THEN MatchLoop_newest_first(mails, conds, ptype, clock, i + 1, <<mails[i]>> \o matched)
             ELSE IF ptype = "ANY" /\ AnyTrue(results)
                  THEN MatchLoop_newest_first(mails, conds, ptype, clock, i + 1, <<mails[i]>> \o matched)
             ELSE MatchLoop_newest_first(mails, conds, ptype, clock, i + 1, matched)

\* faulty variant: the conditions of an email are evaluated only up to the
\* first one that decides the combination (a true one for ANY, a false one
\* for ALL)
RECURSIVE MatchLoop_short_circuit(_, _, _, _, _, _)
MatchLoop_short_circuit(mails, conds, ptype, clock, i, matched) ==
    IF i > Len(mails) THEN Return(matched)
    ELSE LET results == Results(mails[i], conds, clock)
             Decides(j) == Raised(results[j]) \/ results[j].val = (ptype = "ANY")
             stops == \E j \in 1..Len(results) : Decides(j)
             first == CHOOSE j \in 1..Len(results) :
                          Decides(j) /\ \A k \in 1..(j - 1) : ~Decides(k)
         IN  IF stops /\ Raised(results[first]) THEN results[first]
             ELSE IF (ptype = "ALL" /\ ~stops) \/ (ptype = "ANY" /\ stops)
                  THEN MatchLoop_short_circuit(mails, conds, ptype, clock, i + 1, Append(matched, mails[i]))
             ELSE MatchLoop_short_circuit(mails, conds, ptype, clock, i + 1, matched)

\* the loop `for email in emails`, from position i with the matches so far
RECURSIVE MatchLoop(_, _, _, _, _, _)
MatchLoop(mails, conds, ptype, clock, i, matched) ==
    IF i > Len(mails) THEN Return(matched)
    ELSE LET results == Results(mails[i], conds, clock)
         IN  IF \E j \in 1..Len(results) : Raised(results[j]) THEN FirstRaised(results)
             ELSE IF ptype = "ALL" /\ AllTrue(results)
                  THEN MatchLoop(mails, conds, ptype, clock, i + 1, Append(matched, mails[i]))
             ELSE IF ptype = "ANY" /\ AnyTrue(results)
                  THEN MatchLoop(mails, conds, ptype, clock, i + 1, Append(matched, mails[i]))
             ELSE MatchLoop(mails, conds, ptype, clock, i + 1, matched)

_find_matching_emails(mails, conds, ptype, clock) ==
    MatchLoop(mails, conds, ptype, clock, 1, <<>>)

----------------------------------------------------------------------------
(* actions.py *)

MARK_READ == <<"m","a","r","k","_","r","e","a","d">>
MARK_UNREAD == <<"m","a","r","k","_","u","n","r","e","a","d">>
SUPPORTED_ACTIONS == <<MARK_READ, MARK_UNREAD>>
MOVE_ACTION_PREFIX == <<"m","o","v","e",":">>

\* s.startswith(prefix)
StartsWith(s, prefix) ==
    Len(s) >= Len(prefix) /\ SubSeq(s, 1, Len(prefix)) = prefix

\* s.split(':', 1)
SplitColon(s) ==
    IF \E i \in 1..Len(s) : s[i] = ":"
    THEN LET at == CHOOSE i \in 1..Len(s) : s[i] = ":" /\ \A k \in 1..(i - 1) : s[k] # ":"
         IN  <<SubSeq(s, 1, at - 1), SubSeq(s, at + 1, Len(s))>>
    ELSE <<s>>

\* The provider calls of one run of perform_actions are numbered from 1; the
\* call numbered fail_at raises (fail_at = 0: none does).  A step carries the
\* provider state, the number of calls made and the outcome of the last one.
Step(g, n, out) == [gmail |-> g, n |-> n, out |-> out]

\* messages().modify(removeLabelIds / addLabelIds = [UNREAD_LABEL]).execute()
ModifyUnread(st, fail_at, email_id, unread) ==
    IF st.n + 1 = fail_at
    THEN Step(st.gmail, st.n + 1, Raise("HttpError", <<"messages.modify">>))
    ELSE Step([st.gmail EXCEPT !.unread = IF unread THEN @ \cup {email_id} ELSE @ \ {email_id}],
              st.n + 1, Return(PyNone))

\* messages().modify(addLabelIds = [label_id]).execute()
ModifyAddLabel(st, fail_at, email_id, label_id) ==
    IF st.n + 1 = fail_at
    THEN Step(st.gmail, st.n + 1, Raise("HttpError", <<"messages.modify">>))
    ELSE Step([st.gmail EXCEPT !.on = @ \cup {<<email_id, label_id>>}],
              st.n + 1, Return(PyNone))

_perform_basic_action(st, fail_at, email_id, action) ==
    IF action = MARK_READ THEN ModifyUnread(st, fail_at, email_id, FALSE)
    ELSE IF action = MARK_UNREAD THEN ModifyUnread(st, fail_at, email_id, TRUE)
    ELSE Step(st.gmail, st.n, Raise("ActionError", <<"Unknown basic action">>))

\* faulty variant: an existing label is recognised only in the same spelling
get_or_create_label_exact_case(st, fail_at, label_name) ==
    LET labels == st.gmail.labels
        found == {i \in 1..Len(labels) : labels[i] = label_name}
    IN  IF st.n + 1 = fail_at
        THEN Step(st.gmail, st.n + 1, Raise("ActionError", <<"Label operation failed">>))
        ELSE IF found # {}
        THEN Step(st.gmail, st.n + 1, Return(CHOOSE i \in found : \A k \in found : i <= k))
        ELSE IF st.n + 2 = fail_at
        THEN Step(st.gmail, st.n + 2, Raise("ActionError", <<"Label operation failed">>))
        ELSE Step([st.gmail EXCEPT !.labels = Append(@, label_name)],
                  st.n + 2, Return(Len(labels) + 1))

get_or_create_label(st, fail_at, label_name) ==
    LET labels == st.gmail.labels
        found == {i \in 1..Len(labels) : Lower(labels[i]) = Lower(label_name)}
    IN  IF st.n + 1 = fail_at
        THEN Step(st.gmail, st.n + 1, Raise("ActionError", <<"Label operation failed">>))
        ELSE IF found # {}
        THEN Step(st.gmail, st.n + 1, Return(CHOOSE i \in found : \A k \in found : i <= k))
        ELSE IF st.n + 2 = fail_at
        THEN Step(st.gmail, st.n + 2, Raise("ActionError", <<"Label operation failed">>))
        ELSE Step([st.gmail EXCEPT !.labels = Append(@, label_name)],
                  st.n + 2, Return(Len(labels) + 1))

_perform_move_action(st, fail_at, email_id, action) ==
    LET parts == SplitColon(action)
        label_name == parts[2]
        got == get_or_create_label(st, fail_at, label_name)
        moved == ModifyAddLabel(got, fail_at, email_id, got.out.val)
    IN  IF Len(parts) < 2
        THEN Step(st.gmail, st.n, Raise("ActionError", <<"Invalid move action format">>))
        ELSE IF label_name = <<>>
        THEN Step(st.gmail, st.n, Raise("ActionError", <<"Failed to move email">>))
        ELSE IF Raised(got.out)
        THEN Step(got.gmail, got.n, Raise("ActionError", <<"Failed to move email">>))
        ELSE IF Raised(moved.out)
        THEN Step(moved.gmail, moved.n, Raise("ActionError", <<"Failed to move email">>))
        ELSE moved

\* faulty variant: a string that is no supported action is passed over
_perform_single_action_skips_unknown(st, fail_at, email_id, action) ==
    IF InList(action, SUPPORTED_ACTIONS) THEN _perform_basic_action(st, fail_at, email_id, action)
    ELSE IF StartsWith(action, MOVE_ACTION_PREFIX)
    THEN _perform_move_action(st, fail_at, email_id, action)
    ELSE Step(st.gmail, st.n, Return(PyNone))

_perform_single_action(st, fail_at, email_id, action) ==
    IF InList(action, SUPPORTED_ACTIONS) THEN _perform_basic_action(st, fail_at, email_id, action)
    ELSE IF StartsWith(action, MOVE_ACTION_PREFIX) THEN _perform_move_action(st, fail_at, email_id, action)
    ELSE Step(st.gmail, st.n, Raise("ActionError", <<"Unsupported action">>))

\* faulty variant: after a failing action the rest of the list is still
\* performed; the error of the first failure is raised at the end
RECURSIVE ActionLoop_keeps_going(_, _, _, _, _)
ActionLoop_keeps_going(st, fail_at, email_id, acts, i) ==
    IF i > Len(acts) THEN Step(st.gmail, st.n, Return(PyNone))
    ELSE LET done == _perform_single_action(st, fail_at, email_id, acts[i])
             rest == ActionLoop_keeps_going(Step(done.gmail, done.n, Return(PyNone)),
                                            fail_at, email_id, acts, i + 1)
         IN  IF Raised(done.out)
             THEN Step(rest.gmail, rest.n, Raise("ActionError", <<"Action failed", acts[i]>>))
             ELSE rest

\* the loop `for action in actions`, from position i
RECURSIVE ActionLoop(_, _, _, _, _)
ActionLoop(st, fail_at, email_id, acts, i) ==
    IF i > Len(acts) THEN Step(st.gmail, st.n, Return(PyNone))
    ELSE LET done == _perform_single_action(st, fail_at, email_id, acts[i])
         IN  IF Raised(done.out)
             THEN Step(done.gmail, done.n, Raise("ActionError", <<"Action failed", acts[i]>>))
             ELSE ActionLoop(done, fail_at, email_id, acts, i + 1)

perform_actions(g, fail_at, email_id, acts) ==
    IF acts = <<>> THEN Step(g, 0, Return(PyNone))
    ELSE ActionLoop(Step(g, 0, Return(PyNone)), fail_at, email_id, acts, 1)

\* faulty variant: any text after the prefix move: is accepted, the empty one too
validate_action_any_label(action) ==
    IF InList(action, SUPPORTED_ACTIONS) THEN Return(TRUE)
    ELSE IF StartsWith(action, MOVE_ACTION_PREFIX) THEN Return(TRUE)
    ELSE Return(FALSE)

validate_action(action) ==
    IF InList(action, SUPPORTED_ACTIONS) THEN Return(TRUE)
    ELSE IF StartsWith(action, MOVE_ACTION_PREFIX)
    THEN LET label_name == IF \E i \in 1..Len(action) : action[i] = ":"
                           THEN SplitColon(action)[2] ELSE <<>>
         IN  Return(label_name # <<>>)
    ELSE Return(FALSE)

----------------------------------------------------------------------------
(* rule_engine.py: load_rules *)

\* A rules file is missing, holds text that is no JSON, holds a JSON value
\* that is no object, or holds an object, given by its keys and their values.
MissingFile == [kind |-> "missing"]
NotJson == [kind |-> "text"]
JsonValue(top) == [kind |-> "json", top |-> top]
JsonObject(obj) == [kind |-> "json", top |-> "object", obj |-> obj]

\* faulty variant: the check for the actions key is left out
load_rules_no_actions_check(file) ==
    IF file.kind = "missing" THEN Raise("RuleEngineError", <<"Rules file not found">>)
    ELSE IF file.kind = "text" THEN Raise("RuleEngineError", <<"Invalid JSON in rules file">>)
    ELSE IF file.top # "object"
    THEN Raise("RuleEngineError", <<"Failed to load rules", "Rules file must contain a JSON object">>)
    ELSE IF "rules" \notin DOMAIN file.obj
    THEN Raise("RuleEngineError", <<"Failed to load rules", "Rules file must contain a 'rules' array">>)
    ELSE Return(file.obj)

load_rules(file) ==
    IF file.kind = "missing" THEN Raise("RuleEngineError", <<"Rules file not found">>)
    ELSE IF file.kind = "text" THEN Raise("RuleEngineError", <<"Invalid JSON in rules file">>)
    ELSE IF file.top # "object"
    THEN Raise("RuleEngineError", <<"Failed to load rules", "Rules file must contain a JSON object">>)
    ELSE IF "rules" \notin DOMAIN file.obj
    THEN Raise("RuleEngineError", <<"Failed to load rules", "Rules file must contain a 'rules' array">>)
    ELSE IF "actions" \notin DOMAIN file.obj
    THEN Raise("RuleEngineError", <<"Failed to load rules", "Rules file must contain an 'actions' array">>)
    ELSE Return(file.obj)

\* ruleset.get(key, default)
GetOr(obj, key, default) == IF key \in DOMAIN obj THEN obj[key] ELSE default

----------------------------------------------------------------------------
(* gmail_fetcher.py: _parse_email_data *)

\* A Date header value either reads as a date, with or without a zone (the
\* zone -0000 and a missing zone give a datetime without tzinfo), or does not.
DateText(aware, tick) == [kind |-> "date", aware |-> aware, tick |-> tick]
Garbage == [kind |-> "garbage"]

\* msg_data: the id, whether UNREAD is among labelIds, and the headers of the
\* payload by lower-cased name
Message(id, unread, headers) == [kind |-> "message", id |-> id, unread |-> unread, headers |-> headers]

UNREAD_TEXT == <<"U","N","R","E","A","D">>
UNKNOWN_SENDER == <<"U","n","k","n","o","w","n">>
NO_SUBJECT == <<"N","o"," ","S","u","b","j","e","c","t">>

\* faulty variant: the fallback timestamp carries the UTC zone
_parse_date_header_aware_fallback(date_string, utils_bound, utcnow) ==
    IF ~utils_bound \/ date_string.kind = "garbage" THEN PyIso(TRUE, utcnow)
    ELSE PyIso(date_string.aware, date_string.tick)

\* email.utils.parsedate_to_datetime(date_string).isoformat(); any exception
\* gives datetime.utcnow().isoformat(), a timestamp without zone.  The module
\* does `import email` only: email.utils is bound when some module imported
\* before has loaded it, otherwise the attribute lookup raises and is caught.
_parse_date_header(date_string, utils_bound, utcnow) ==
    IF ~utils_bound \/ date_string.kind = "garbage" THEN PyIso(FALSE, utcnow)
    ELSE PyIso(date_string.aware, date_string.tick)

_parse_email_data(msg, utils_bound, utcnow) ==
    LET headers == msg.headers
    IN  [id |-> PyStr(msg.id),
         label_ids |-> PyStr(IF msg.unread THEN UNREAD_TEXT ELSE <<>>),
         is_read |-> PyBool(~msg.unread),
         body |-> PyStr(<<>>),
         sender |-> IF "from" \in DOMAIN headers THEN PyStr(headers["from"])
                    ELSE PyStr(UNKNOWN_SENDER),
         subject |-> IF "subject" \in DOMAIN headers THEN PyStr(headers["subject"])
                     ELSE PyStr(NO_SUBJECT),
         received_at |-> IF "date" \in DOMAIN headers
                         THEN _parse_date_header(headers["date"], utils_bound, utcnow)
                         ELSE PyIso(FALSE, utcnow)]

----------------------------------------------------------------------------
(* Inputs of the calls: emails as database.get_all_emails builds them, and  *)
(* condition dictionaries as json.load yields them.                        *)

TextFields == {"sender", "subject", "body"}
FieldNames == {"sender", "subject", "body", "received_at", "is_read", "label_ids", "Subject"}
PredicateNames == {"contains", "not_contains", "equals", "not_equals",
                   "less_than_days", "greater_than_days", "starts_with", "Contains"}
SupportedPredicateNames == {SUPPORTED_PREDICATES[i] : i \in 1..Len(SUPPORTED_PREDICATES)}

TextAlphabet == {"a", "A", "b"}
Texts == UNION {[1..k -> TextAlphabet] : k \in 0..MaxStrLen}

\* condition values for is_read
BoolTexts == {<<"t","r","u","e">>, <<"T","r","u","e">>, <<"T","R","U","E">>,
              <<"f","a","l","s","e">>, <<"F","a","l","s","e">>, <<"y","e","s">>,
              <<"1">>, <<"t","r","u","e"," ">>}

\* condition values for received_at
DayTexts == {<<"0">>, <<"1">>, <<"2">>, <<"3">>, <<"-","1">>, <<" ","2">>, <<"x">>, <<"1",".","5">>}

Ticks == 0..MaxTick

BaseEmail ==
    [id |-> PyStr(<<"m", "1">>), sender |-> PyStr(<<"a">>), subject |-> PyStr(<<"b">>),
     body |-> PyStr(<<>>), received_at |-> PyIso(TRUE, 0), label_ids |-> PyStr(<<>>),
     is_read |-> PyBool(FALSE)]
EmptyEmail == [k \in {} |-> PyNone]

Condition(f, p, v) == [field |-> f, predicate |-> p, value |-> v]
Without(cond, keys) == [k \in (DOMAIN cond) \ keys |-> cond[k]]

TextCalls ==
    {<<[BaseEmail EXCEPT ![f] = PyStr(s)], Condition(f, p, PyStr(v)), 0>> :
        f \in TextFields, s \in Texts, p \in SupportedPredicateNames, v \in Texts \ {<<>>}}
BoolCalls ==
    {<<[BaseEmail EXCEPT !.is_read = PyBool(b)], Condition("is_read", p, PyStr(v)), 0>> :
        b \in BOOLEAN, p \in SupportedPredicateNames, v \in BoolTexts}
DateCalls ==
    {<<[BaseEmail EXCEPT !.received_at = PyIso(TRUE, t)], Condition("received_at", p, PyStr(v)), c>> :
        t \in Ticks, p \in SupportedPredicateNames, v \in DayTexts, c \in Ticks}
LooseValues == {PyStr(<<>>), PyStr(<<"a">>), PyNone, PyInt(0), PyBool(FALSE)}
LooseCalls ==
    {<<m, Without(Condition(f, p, v), gone), 0>> :
        m \in {EmptyEmail, BaseEmail}, f \in FieldNames, p \in PredicateNames,
        v \in LooseValues, gone \in SUBSET {"field", "predicate", "value"}}

\* emails whose field is absent, None, of another type, or (for the two
\* non-text fields) a text that is no timestamp and no boolean
OddValues(f) ==
    {PyNone, PyInt(1), PyBool(TRUE)}
    \cup (IF f \in TextFields THEN {} ELSE {PyStr(<<"a">>)})
    \cup (IF f = "received_at" THEN {PyIso(FALSE, MaxTick - 1)} ELSE {})
OddEmails(f) ==
    {Without(BaseEmail, {f})} \cup {[BaseEmail EXCEPT ![f] = v] : v \in OddValues(f)}
OddTexts == {<<"a">>, <<"t","r","u","e">>, <<"f","a","l","s","e">>, <<"1">>}
OddCalls ==
    UNION {{<<m, Condition(f, p, PyStr(v)), MaxTick>> :
                m \in OddEmails(f), p \in SupportedPredicateNames, v \in OddTexts} :
           f \in {SUPPORTED_FIELDS[i] : i \in 1..Len(SUPPORTED_FIELDS)}}

\* condition values that are truthy and no string
TruthyValues == {PyInt(1), PyInt(2), PyBool(TRUE)}
TruthyCalls ==
    {<<[BaseEmail EXCEPT !.received_at = PyIso(TRUE, t)], Condition("received_at", p, v), c>> :
        t \in Ticks, p \in SupportedPredicateNames, v \in TruthyValues, c \in Ticks}
    \cup {<<[BaseEmail EXCEPT !.is_read = PyBool(b)], Condition("is_read", p, v), 0>> :
            b \in BOOLEAN, p \in SupportedPredicateNames, v \in TruthyValues}
    \cup {<<BaseEmail, Condition(f, p, v), 0>> :
            f \in TextFields, p \in SupportedPredicateNames, v \in TruthyValues}

\* messages of the provider: the Date header missing, unreadable, with and
\* without a zone; the other headers present or not
DateHeaders ==
    {Garbage} \cup {DateText(a, t) : a \in BOOLEAN, t \in {0, MaxTick - 1}}
HeaderSets ==
    {[n \in {} |-> <<>>], [from |-> <<"a">>, subject |-> <<"b">>]}
    \cup {[date |-> d] : d \in DateHeaders}
    \cup {[from |-> <<"a">>, subject |-> <<"b">>, date |-> d] : d \in DateHeaders}
Messages == {Message(<<"m", "1">>, u, h) : u \in BOOLEAN, h \in HeaderSets}
MessageConditions ==
    {Condition("received_at", p, PyStr(v)) : p \in SupportedPredicateNames, v \in DayTexts}
    \cup {Condition("received_at", p, v) : p \in {"less_than_days", "greater_than_days"},
                                          v \in TruthyValues}

NoOutcome == [kind |-> "none"]

\* rows of the emails table: id is the primary key
Mail(id, subject, read, tick) ==
    [BaseEmail EXCEPT !.id = PyStr(id), !.subject = PyStr(subject),
                      !.is_read = PyBool(read), !.received_at = PyIso(TRUE, tick)]
EmailPool ==
    {Mail(<<"m", "1">>, <<"a", "b">>, FALSE, 0),
     Mail(<<"m", "2">>, <<"B">>, TRUE, MaxTick - 1),
     Mail(<<"m", "3">>, <<>>, FALSE, MaxTick)}
EmailLists == UNION {[1..k -> EmailPool] : k \in 0..MaxEmails}
Stores == {rows \in EmailLists : \A i, j \in 1..Len(rows) : rows[i].id = rows[j].id => i = j}

ValidConditionPool ==
    {Condition("subject", "contains", PyStr(<<"B">>)),
     Condition("is_read", "equals", PyStr(<<"f","a","l","s","e">>)),
     Condition("received_at", "less_than_days", PyStr(<<"1">>))}
InvalidConditionPool ==
    {Condition("subject", "contains", PyStr(<<>>)),
     Without(Condition("is_read", "equals", PyStr(<<"t","r","u","e">>)), {"predicate"})}
ValidConditionLists == UNION {[1..k -> ValidConditionPool] : k \in 0..MaxConditions}
ConditionLists ==
    UNION {[1..k -> ValidConditionPool \cup InvalidConditionPool] : k \in 0..MaxConditions}

ActionLists ==
    {<<>>, <<MARK_READ>>,
     <<MOVE_ACTION_PREFIX \o <<"W">>, MARK_UNREAD>>,
     <<MARK_READ, <<"a","r","c","h","i","v","e">>, MARK_UNREAD>>}

\* values of the predicate key: the two the code knows and two it does not
PredicateTypes == {"ALL", "ANY", "all", "NONE"}

RuleFiles ==
    {MissingFile, NotJson, JsonValue("array"), JsonValue("string")}
    \cup {JsonObject(Without([predicate |-> p, rules |-> r, actions |-> a], gone)) :
            p \in PredicateTypes, r \in ConditionLists, a \in ActionLists,
            gone \in {{}, {"predicate"}, {"rules"}, {"actions"}, {"rules", "actions"}}}

\* clock readings of a run
RunClocks == {MaxTick - 1, MaxTick}

\* the provider before a run: unread exactly the messages stored as unread
InitialGmail(rows) ==
    [unread |-> {rows[i].id : i \in {k \in 1..Len(rows) : ~rows[k].is_read.b}},
     labels |-> << <<"w">> >>,
     on |-> {}]

\* no message was fetched
NoMessage == [kind |-> "none"]

IdleRun ==
    /\ rule_file = MissingFile
    /\ msg_data = NoMessage
    /\ store = <<>>
    /\ gmail = InitialGmail(<<>>)
    /\ actions = <<>>
    /\ matched_emails = <<>>
    /\ idx = 0
    /\ calls = <<>>
    /\ reads = 0
IdleMatch ==
    /\ predicate_type = "ALL"
    /\ conditions = <<>>
    /\ emails = <<>>
IdleCall ==
    /\ email = EmptyEmail
    /\ condition = EmptyEmail

----------------------------------------------------------------------------
(* SpecEval: one call of validate_condition or evaluate_condition *)

InitCall ==
    /\ \E call \in TextCalls \cup BoolCalls \cup DateCalls \cup LooseCalls \cup OddCalls
                   \cup TruthyCalls :
        /\ email = call[1]
        /\ condition = call[2]
        /\ now = call[3]
    /\ outcome = NoOutcome
    /\ pc = "call"
    /\ IdleRun
    /\ IdleMatch

\* a message of the provider is to be parsed, then a condition evaluated on it
InitMessage ==
    /\ msg_data \in Messages
    /\ condition \in MessageConditions
    /\ now \in RunClocks
    /\ email = EmptyEmail
    /\ outcome = NoOutcome
    /\ pc = "message"
    /\ rule_file = MissingFile
    /\ store = <<>>
    /\ gmail = InitialGmail(<<>>)
    /\ actions = <<>>
    /\ matched_emails = <<>>
    /\ idx = 0
    /\ calls = <<>>
    /\ reads = 0
    /\ IdleMatch

InitEval == InitCall \/ InitMessage

\* email_data = _parse_email_data(msg_data), at some time up to now; the
\* record is saved and read back unchanged (database.py 104-114, 153-161)
ParseEmailData ==
    /\ pc = "message"
    /\ \E utils_bound \in BOOLEAN, utcnow \in {0, now} :
           email' = _parse_email_data(msg_data, utils_bound, utcnow)
    /\ pc' = "call"
    /\ UNCHANGED <<condition, now, outcome, runVars, matchVars>>

Validate ==
    /\ pc = "call"
    /\ outcome' = validate_condition(condition)
    /\ pc' = "validated"
    /\ UNCHANGED <<email, condition, now, runVars, matchVars>>

Evaluate ==
    /\ pc = "call"
    /\ outcome' = evaluate_condition(email, condition, now)
    /\ pc' = "evaluated"
    /\ UNCHANGED <<email, condition, now, runVars, matchVars>>

NextEval == ParseEmailData \/ Validate \/ Evaluate

SpecEval == InitEval /\ [][NextEval]_vars

----------------------------------------------------------------------------
(* SpecMatch: one call of _find_matching_emails *)

InitMatch ==
    /\ emails \in EmailLists
    /\ conditions \in ConditionLists
    /\ predicate_type \in PredicateTypes
    /\ now \in RunClocks
    /\ outcome = NoOutcome
    /\ pc = "call"
    /\ IdleRun
    /\ IdleCall

FindMatching ==
    /\ pc = "call"
    /\ outcome' = _find_matching_emails(emails, conditions, predicate_type, now)
    /\ pc' = "matched"
    /\ UNCHANGED <<now, email, condition, runVars, matchVars>>

NextMatch == FindMatching

SpecMatch == InitMatch /\ [][NextMatch]_vars

----------------------------------------------------------------------------
(* SpecAction: one call of validate_action or perform_actions *)

\* action strings: the supported ones and their near misses
ActionTokens ==
    {MARK_READ, MARK_UNREAD, MOVE_ACTION_PREFIX,
     MOVE_ACTION_PREFIX \o <<"W">>, MOVE_ACTION_PREFIX \o <<"b">>,
     MOVE_ACTION_PREFIX \o <<":">>, MOVE_ACTION_PREFIX \o <<" ">>,
     <<"m","o","v","e">>, <<"M","o","v","e",":","W">>, <<"m","o","v","e","W">>,
     <<"a","r","c","h","i","v","e">>, <<>>, MARK_READ \o <<" ">>,
     MARK_READ \o <<":","x">>, <<"M","A","R","K","_","R","E","A","D">>, <<":">>}

\* the strings action lists are built from: on an existing label (w, written
\* W), on a new label (b, also written B), and two that fail without a
\* provider call
ActionPool ==
    {MARK_READ, MARK_UNREAD, MOVE_ACTION_PREFIX \o <<"W">>, MOVE_ACTION_PREFIX \o <<"b">>,
     MOVE_ACTION_PREFIX \o <<"B">>, MOVE_ACTION_PREFIX, <<"a","r","c","h","i","v","e">>}
PerformedLists ==
    UNION {[1..k -> ActionPool] : k \in 0..MaxActions} \cup {<<t>> : t \in ActionTokens}

InitAction ==
    /\ store \in Stores \ {<<>>}
    /\ email = store[1]
    /\ gmail = InitialGmail(store)
    /\ actions \in PerformedLists
    /\ outcome = NoOutcome
    /\ pc = "call"
    /\ rule_file = MissingFile
    /\ msg_data = NoMessage
    /\ matched_emails = <<>>
    /\ idx = 0
    /\ calls = <<>>
    /\ reads = 0
    /\ now = 0
    /\ condition = EmptyEmail
    /\ IdleMatch

\* validate_action(action), for a list of one action
ValidateAction ==
    /\ pc = "call"
    /\ Len(actions) = 1
    /\ outcome' = validate_action(actions[1])
    /\ pc' = "validated"
    /\ UNCHANGED <<now, email, condition, runVars, matchVars>>

\* perform_actions(service, email['id'], actions); outcome holds the provider
\* state after the call, the number of provider calls made and what the call
\* returned or raised
PerformActions ==
    /\ pc = "call"
    /\ \E fail_at \in 0..(3 * Len(actions)) :
        LET done == perform_actions(gmail, fail_at, email.id, actions)
        IN  /\ gmail' = done.gmail
            /\ outcome' = done
    /\ pc' = "performed"
    /\ UNCHANGED <<now, email, condition, rule_file, msg_data, store, actions, matched_emails, idx,
                   calls, reads, matchVars>>

NextAction == ValidateAction \/ PerformActions

SpecAction == InitAction /\ [][NextAction]_vars

----------------------------------------------------------------------------
(* Spec: one run of apply_rules(service, rule_file) *)

Init ==
    /\ rule_file \in RuleFiles
    /\ msg_data = NoMessage
    /\ store \in Stores
    /\ gmail = InitialGmail(store)
    /\ actions = <<>>
    /\ matched_emails = <<>>
    /\ idx = 0
    /\ calls = <<>>
    /\ reads = 0
    /\ now = 0
    /\ outcome = NoOutcome
    /\ pc = "start"
    /\ IdleMatch
    /\ IdleCall

\* the except clauses of apply_rules: RuleEngineError and DatabaseError are
\* re-raised, anything else is raised as RuleEngineError
ApplyRulesExcept(o) ==
    IF o.exc \in {"RuleEngineError", "DatabaseError"} THEN o
    ELSE Raise("RuleEngineError", <<"Rule engine failed">>)

\* faulty variant: a ruleset without predicate key combines as ANY
Load_default_any ==
    /\ pc = "start"
    /\ LET ruleset == load_rules(rule_file)
       IN  IF Raised(ruleset)
           THEN /\ pc' = "failed"
                /\ outcome' = ApplyRulesExcept(ruleset)
                /\ UNCHANGED <<predicate_type, conditions, actions>>
           ELSE /\ pc' = "loaded"
                /\ predicate_type' = GetOr(ruleset.val, "predicate", "ANY")
                /\ conditions' = GetOr(ruleset.val, "rules", <<>>)
                /\ actions' = GetOr(ruleset.val, "actions", <<>>)
                /\ UNCHANGED outcome
    /\ UNCHANGED <<now, email, condition, rule_file, msg_data, store, gmail, emails,
                   matched_emails, idx, calls, reads>>

\* ruleset = load_rules(rule_file) and the three ruleset.get calls
Load ==
    /\ pc = "start"
    /\ LET ruleset == load_rules(rule_file)
       IN  IF Raised(ruleset)
           THEN /\ pc' = "failed"
                /\ outcome' = ApplyRulesExcept(ruleset)
                /\ UNCHANGED <<predicate_type, conditions, actions>>
           ELSE /\ pc' = "loaded"
                /\ predicate_type' = GetOr(ruleset.val, "predicate", "ALL")
                /\ conditions' = GetOr(ruleset.val, "rules", <<>>)
                /\ actions' = GetOr(ruleset.val, "actions", <<>>)
                /\ UNCHANGED outcome
    /\ UNCHANGED <<now, email, condition, rule_file, msg_data, store, gmail, emails,
                   matched_emails, idx, calls, reads>>

\* faulty variant: the validation loop is left out
ValidateConditions_skipped ==
    /\ pc = "loaded"
    /\ pc' = "validated"
    /\ UNCHANGED <<now, callVars, runVars, matchVars>>

\* for condition in conditions: validate_condition(condition)
ValidateConditions ==
    /\ pc = "loaded"
    /\ LET checks == [j \in 1..Len(conditions) |-> validate_condition(conditions[j])]
       IN  IF \E j \in 1..Len(checks) : Raised(checks[j])
           THEN /\ pc' = "failed"
                /\ outcome' = ApplyRulesExcept(FirstRaised(checks))
           ELSE /\ pc' = "validated"
                /\ UNCHANGED outcome
    /\ UNCHANGED <<now, email, condition, runVars, matchVars>>

\* emails = get_emails()
GetEmails ==
    /\ pc = "validated"
    /\ reads' = reads + 1
    /\ emails' = store
    /\ pc' = "fetched"
    /\ UNCHANGED <<now, callVars, rule_file, msg_data, store, gmail, actions, matched_emails, idx,
                   calls, predicate_type, conditions>>

\* get_emails() raises DatabaseError
GetEmailsFails ==
    /\ pc = "validated"
    /\ reads' = reads + 1
    /\ pc' = "failed"
    /\ outcome' = ApplyRulesExcept(Raise("DatabaseError", <<"Failed to retrieve emails">>))
    /\ UNCHANGED <<now, email, condition, rule_file, msg_data, store, gmail, actions, matched_emails,
                   idx, calls, matchVars>>

\* matched_emails = _find_matching_emails(emails, conditions, predicate_type)
Match ==
    /\ pc = "fetched"
    /\ \E clock \in RunClocks :
        /\ now' = clock
        /\ LET found == _find_matching_emails(emails, conditions, predicate_type, clock)
           IN  IF Raised(found)
               THEN /\ pc' = "failed"
                    /\ outcome' = ApplyRulesExcept(found)
                    /\ UNCHANGED <<matched_emails, idx>>
               ELSE /\ pc' = "acting"
                    /\ matched_emails' = found.val
                    /\ idx' = 1
                    /\ UNCHANGED outcome
    /\ UNCHANGED <<email, condition, rule_file, msg_data, store, gmail, actions, calls, reads, matchVars>>

\* faulty variant: the exception of perform_actions is not caught in the loop
Act_uncaught ==
    /\ pc = "acting"
    /\ idx <= Len(matched_emails)
    /\ \E fail_at \in 0..(3 * Len(actions)) :
        LET email_id == matched_emails[idx].id
            done == perform_actions(gmail, fail_at, email_id, actions)
        IN  /\ gmail' = done.gmail
            /\ calls' = Append(calls, [email_id |-> email_id, actions |-> actions, out |-> done.out])
            /\ IF Raised(done.out)
               THEN pc' = "failed" /\ outcome' = ApplyRulesExcept(done.out)
               ELSE UNCHANGED <<pc, outcome>>
    /\ idx' = idx + 1
    /\ UNCHANGED <<now, email, condition, rule_file, msg_data, store, actions, matched_emails, reads, matchVars>>

\* faulty variant: an email whose actions failed is tried again
Act_retried ==
    /\ pc = "acting"
    /\ idx <= Len(matched_emails)
    /\ \E fail_at \in 0..(3 * Len(actions)) :
        LET email_id == matched_emails[idx].id
            done == perform_actions(gmail, fail_at, email_id, actions)
        IN  /\ gmail' = done.gmail
            /\ calls' = Append(calls, [email_id |-> email_id, actions |-> actions, out |-> done.out])
            /\ idx' = IF Raised(done.out) /\ Len(calls) < Len(matched_emails) THEN idx ELSE idx + 1
    /\ UNCHANGED <<now, callVars, pc, rule_file, msg_data, store, actions, matched_emails, reads, matchVars>>

\* faulty variant: the read state the provider holds after the actions is
\* written back to the emails table
Act_store_synced ==
    /\ pc = "acting"
    /\ idx <= Len(matched_emails)
    /\ \E fail_at \in 0..(3 * Len(actions)) :
        LET email_id == matched_emails[idx].id
            done == perform_actions(gmail, fail_at, email_id, actions)
        IN  /\ gmail' = done.gmail
            /\ calls' = Append(calls, [email_id |-> email_id, actions |-> actions, out |-> done.out])
            /\ store' = [i \in 1..Len(store) |->
                            [store[i] EXCEPT !.is_read = PyBool(store[i].id \notin done.gmail.unread)]]
    /\ idx' = idx + 1
    /\ UNCHANGED <<now, callVars, pc, rule_file, msg_data, actions, matched_emails, reads, matchVars>>

\* one round of `for email in matched_emails`: perform_actions, its
\* exception caught and logged
Act ==
    /\ pc = "acting"
    /\ idx <= Len(matched_emails)
    /\ \E fail_at \in 0..(3 * Len(actions)) :
        LET email_id == matched_emails[idx].id
            done == perform_actions(gmail, fail_at, email_id, actions)
        IN  /\ gmail' = done.gmail
            /\ calls' = Append(calls, [email_id |-> email_id, actions |-> actions, out |-> done.out])
    /\ idx' = idx + 1
    /\ UNCHANGED <<now, callVars, pc, rule_file, msg_data, store, actions, matched_emails, reads, matchVars>>

\* the loop is over: apply_rules returns None
Finish ==
    /\ pc = "acting"
    /\ idx > Len(matched_emails)
    /\ pc' = "done"
    /\ outcome' = Return(PyNone)
    /\ UNCHANGED <<now, email, condition, runVars, matchVars>>

Next == Load \/ ValidateConditions \/ GetEmails \/ GetEmailsFails \/ Match \/ Act \/ Finish

Spec == Init /\ [][Next]_vars

----------------------------------------------------------------------------
(* Vocabulary of the properties, stated apart from the operators above *)

AllKeys == {"field", "predicate", "value"}
SupportedFieldNames == {"sender", "subject", "body", "received_at", "is_read"}
TextPredicates == {"contains", "not_contains", "equals", "not_equals"}
DatePredicates == {"less_than_days", "greater_than_days"}

\* the keys a condition lacks, and the first of them in the order field, predicate, value
MissingKeys(cond) == AllKeys \ DOMAIN cond
FirstMissing(cond) ==
    IF "field" \notin DOMAIN cond THEN "field"
    ELSE IF "predicate" \notin DOMAIN cond THEN "predicate"
    ELSE "value"

EmptyValue(v) == v \in {PyStr(<<>>), PyNone, PyInt(0), PyBool(FALSE)}

InvalidCondition(cond) ==
    \/ MissingKeys(cond) # {}
    \/ cond.field \notin SupportedFieldNames
    \/ cond.predicate \notin SupportedPredicateNames
    \/ EmptyValue(cond.value)

\* a condition that passes validation and carries a non-empty text as value
TextValued(cond) ==
    /\ ~InvalidCondition(cond)
    /\ cond.value.t = "str"

\* case folding over the letters the inputs are drawn from
Folded(s) ==
    [i \in 1..Len(s) |-> IF s[i] = "A" THEN "a" ELSE IF s[i] = "B" THEN "b" ELSE s[i]]
Occurs(a, b) ==
    \E i \in 1..(Len(b) + 1) : \A k \in 1..Len(a) : i + k - 1 <= Len(b) /\ b[i + k - 1] = a[k]
CaseAlphabet == {"a", "A", "b", "B"}
CaseVariants(s) == {x \in [1..Len(s) -> CaseAlphabet] : Folded(x) = Folded(s)}

\* the texts int() reads as an integer, with the integer
IntegerTexts == {<< <<"0">>, 0 >>, << <<"1">>, 1 >>, << <<"2">>, 2 >>, << <<"3">>, 3 >>,
                 << <<"-","1">>, 0 - 1 >>, << <<" ","2">>, 2 >>}
IsIntegerText(s) == \E it \in IntegerTexts : it[1] = s
DayCount(s) == (CHOOSE it \in IntegerTexts : it[1] = s)[2]

\* "true" in any letter case
IsTrueText(s) ==
    /\ Len(s) = 4
    /\ s[1] \in {"t", "T"} /\ s[2] \in {"r", "R"} /\ s[3] \in {"u", "U"} /\ s[4] \in {"e", "E"}

----------------------------------------------------------------------------
(* Properties of evaluate_condition and validate_condition (SpecEval) *)

TextCall ==
    /\ pc = "evaluated"
    /\ TextValued(condition)
    /\ condition.field \in TextFields
    /\ condition.predicate \in TextPredicates
    /\ condition.field \in DOMAIN email
    /\ email[condition.field].t = "str"

\* C2: on sender, subject and body with a string email value the four text
\* predicates compare the lower-cased operands (contains: substring, equals:
\* equality, not_contains and not_equals their negations), so changing the
\* letter case of either operand never changes the result.
C2_TextCaseInsensitive ==
    TextCall =>
        LET f == condition.field
            p == condition.predicate
            ev == Folded(email[f].s)
            cv == Folded(condition.value.s)
            expected ==
                IF p = "contains" THEN Occurs(cv, ev)
                ELSE IF p = "not_contains" THEN ~Occurs(cv, ev)
                ELSE IF p = "equals" THEN ev = cv
                ELSE ev # cv
        IN  /\ outcome = Return(expected)
            /\ \A e2 \in CaseVariants(email[f].s), v2 \in CaseVariants(condition.value.s) :
                   evaluate_condition([email EXCEPT ![f] = PyStr(e2)],
                                      [condition EXCEPT !.value = PyStr(v2)], now) = outcome

C2_Witness ==
    /\ TextCall
    /\ condition.predicate = "equals"
    /\ email[condition.field].s = <<"a", "b">>
    /\ condition.value.s = <<"A", "b">>
    /\ outcome = Return(TRUE)

DateCall ==
    /\ pc = "evaluated"
    /\ TextValued(condition)
    /\ condition.field = "received_at"
    /\ condition.predicate \in DatePredicates
    /\ IsIntegerText(condition.value.s)
    /\ "received_at" \in DOMAIN email
    /\ email.received_at.t = "iso"
    /\ email.received_at.aware

LessThanDays(n) == Condition("received_at", "less_than_days", PyStr(n))
GreaterThanDays(n) == Condition("received_at", "greater_than_days", PyStr(n))

\* C3: with cutoff = now - N days, less_than_days is true iff the timestamp is
\* strictly after the cutoff and greater_than_days iff strictly before; the
\* two are never both true for the same N, both are false at the cutoff, and
\* an email received d days ago with M < d < N satisfies less_than_days N and
\* greater_than_days M.
C3_DateStrict ==
    DateCall =>
        LET ts == email.received_at.tick
            n == condition.value.s
            cutoff == now - DayCount(n) * TicksPerDay
            less == evaluate_condition(email, LessThanDays(n), now)
            greater == evaluate_condition(email, GreaterThanDays(n), now)
        IN  /\ condition.predicate = "less_than_days" => outcome = Return(ts > cutoff)
            /\ condition.predicate = "greater_than_days" => outcome = Return(ts < cutoff)
            /\ outcome \in {less, greater}
            /\ ~(less = Return(TRUE) /\ greater = Return(TRUE))
            /\ ts = cutoff => less = Return(FALSE) /\ greater = Return(FALSE)
            /\ \A m \in IntegerTexts :
                   (/\ m[2] * TicksPerDay < now - ts
                    /\ now - ts < DayCount(n) * TicksPerDay)
                   => /\ less = Return(TRUE)
                      /\ evaluate_condition(email, GreaterThanDays(m[1]), now) = Return(TRUE)

C3_Witness ==
    /\ DateCall
    /\ condition.predicate = "less_than_days"
    /\ condition.value.s = <<"2">>
    /\ now - email.received_at.tick = TicksPerDay + 1
    /\ outcome = Return(TRUE)
    /\ evaluate_condition(email, GreaterThanDays(<<"1">>), now) = Return(TRUE)

BoolCall ==
    /\ pc = "evaluated"
    /\ TextValued(condition)
    /\ condition.field = "is_read"
    /\ "is_read" \in DOMAIN email
    /\ email.is_read.t = "bool"

\* C4: on is_read with a boolean email value the condition value reads as true
\* iff it is "true" in any letter case, as false otherwise; equals holds iff
\* the email value is the parsed value, not_equals iff it differs, and every
\* other predicate yields false.
C4_BooleanParse ==
    BoolCall =>
        LET parsed == IsTrueText(condition.value.s)
            b == email.is_read.b
        IN  outcome = Return(IF condition.predicate = "equals" THEN b = parsed
                             ELSE IF condition.predicate = "not_equals" THEN b # parsed
                             ELSE FALSE)

C4_Witness ==
    /\ BoolCall
    /\ condition.predicate = "equals"
    /\ condition.value.s = <<"T", "R", "U", "E">>
    /\ email.is_read.b
    /\ outcome = Return(TRUE)

\* C5: validate_condition raises RuleEngineError iff a key is missing, the
\* field or the predicate is unsupported, or the value is falsy, and returns
\* None otherwise; a missing key is reported first, and of several missing
\* keys the first in the order field, predicate, value.
C5_ValidateIff ==
    pc = "validated" =>
        /\ InvalidCondition(condition) <=> (Raised(outcome) /\ outcome.exc = "RuleEngineError")
        /\ ~InvalidCondition(condition) => outcome = Return(PyNone)
        /\ MissingKeys(condition) # {} =>
               outcome.msg = <<"Condition missing required field", FirstMissing(condition)>>

C5_Witness ==
    /\ pc = "validated"
    /\ MissingKeys(condition) = {"predicate", "value"}
    /\ condition.field = "Subject"
    /\ outcome = Raise("RuleEngineError", <<"Condition missing required field", "predicate">>)

\* C6: evaluate_condition on a condition that fails validation returns no
\* boolean for any email, the empty one included: the validation error of
\* validate_condition reaches the caller.
C6_InvalidPropagates ==
    (pc = "evaluated" /\ InvalidCondition(condition)) =>
        /\ Raised(outcome)
        /\ outcome.exc = "RuleEngineError"
        /\ outcome = validate_condition(condition)

C6_Witness ==
    /\ pc = "evaluated"
    /\ email = EmptyEmail
    /\ MissingKeys(condition) = {}
    /\ condition.field = "subject"
    /\ condition.predicate = "contains"
    /\ condition.value = PyStr(<<>>)
    /\ outcome = Raise("RuleEngineError", <<"Condition value cannot be empty">>)

\* the email has no value for the field: the key is absent or holds None
Lacks(mail, f) == f \notin DOMAIN mail \/ mail[f] = PyNone

\* C11: for a valid condition on received_at or is_read and an email that
\* lacks the field or holds None for it, evaluate_condition returns False for
\* each of the six predicates and every condition value.
C11_LackingFieldIsFalse ==
    (/\ pc = "evaluated"
     /\ ~InvalidCondition(condition)
     /\ condition.field \in {"received_at", "is_read"}
     /\ Lacks(email, condition.field))
    => outcome = Return(FALSE)

\* C12: on sender, subject and body an email value that is absent, None or
\* no string makes evaluate_condition return False for every valid condition,
\* not_contains and not_equals included.
C12_NonStringTextIsFalse ==
    (/\ pc = "evaluated"
     /\ ~InvalidCondition(condition)
     /\ condition.field \in TextFields
     /\ (Lacks(email, condition.field) \/ email[condition.field].t \notin {"str", "iso"}))
    => outcome = Return(FALSE)

C12_Witness ==
    /\ pc = "evaluated"
    /\ condition = Condition("subject", "not_contains", PyStr(<<"a">>))
    /\ "subject" \notin DOMAIN email
    /\ outcome = Return(FALSE)

\* C13: on received_at a malformed email timestamp, or a condition value that
\* is no integer, makes both date predicates False, never an error.
C13_BadDateIsFalse ==
    (/\ pc = "evaluated"
     /\ TextValued(condition)
     /\ condition.field = "received_at"
     /\ condition.predicate \in DatePredicates
     /\ "received_at" \in DOMAIN email
     /\ \/ email.received_at.t = "str"
        \/ email.received_at.t = "iso" /\ ~IsIntegerText(condition.value.s))
    => outcome = Return(FALSE)

C13_Witness ==
    /\ pc = "evaluated"
    /\ condition = Condition("received_at", "less_than_days", PyStr(<<"x">>))
    /\ email = [BaseEmail EXCEPT !.received_at = PyIso(TRUE, MaxTick)]
    /\ now = 0
    /\ outcome = Return(FALSE)

Incompatible(f, p) ==
    \/ p \in DatePredicates /\ f \in TextFields \cup {"is_read"}
    \/ p \in TextPredicates /\ f = "received_at"
    \/ p \in {"contains", "not_contains"} /\ f = "is_read"

\* C14: validation does not look at whether field and predicate fit: every
\* supported field with every supported predicate and a non-empty value
\* passes, and each unfitting combination evaluates to False for every email.
C14_IncompatibleIsFalse ==
    /\ (/\ pc = "validated"
        /\ MissingKeys(condition) = {}
        /\ condition.field \in SupportedFieldNames
        /\ condition.predicate \in SupportedPredicateNames
        /\ ~EmptyValue(condition.value))
       => outcome = Return(PyNone)
    /\ (/\ pc = "evaluated"
        /\ ~InvalidCondition(condition)
        /\ Incompatible(condition.field, condition.predicate))
       => outcome = Return(FALSE)

C14_Witness ==
    /\ pc = "evaluated"
    /\ condition = Condition("subject", "greater_than_days", PyStr(<<"a">>))
    /\ email = BaseEmail
    /\ outcome = Return(FALSE)

\* a condition with all keys, a supported field and predicate, and a value
\* that is truthy and no string
TruthyValued(cond) ==
    /\ ~InvalidCondition(cond)
    /\ cond.value.t \in {"int", "bool"}

\* the day count int() makes of such a value
ValueDays(v) == IF v.t = "int" THEN v.n ELSE 1

\* C25: validate_condition asks only that value is truthy: a condition whose
\* value is truthy but no string (the integer 1, say) passes validation;
\* evaluate_condition then returns False, raising nothing, on a text field
\* holding a string and on is_read, for every predicate, and on received_at
\* takes the value as the day count.
C25_NonStringValue ==
    /\ (pc = "validated" /\ TruthyValued(condition)) => outcome = Return(PyNone)
    /\ (/\ pc = "evaluated"
        /\ TruthyValued(condition)
        /\ condition.field \in TextFields
        /\ condition.field \in DOMAIN email
        /\ email[condition.field].t = "str")
       => outcome = Return(FALSE)
    /\ (pc = "evaluated" /\ TruthyValued(condition) /\ condition.field = "is_read")
       => outcome = Return(FALSE)
    /\ (/\ pc = "evaluated"
        /\ TruthyValued(condition)
        /\ condition.field = "received_at"
        /\ "received_at" \in DOMAIN email
        /\ email.received_at.t = "iso"
        /\ email.received_at.aware)
       => LET ts == email.received_at.tick
              cutoff == now - ValueDays(condition.value) * TicksPerDay
          IN  outcome = Return(IF condition.predicate = "less_than_days" THEN ts > cutoff
                               ELSE IF condition.predicate = "greater_than_days" THEN ts < cutoff
                               ELSE FALSE)

\* the integer 2 as day count: received less than two days ago
C25_Witness ==
    /\ pc = "evaluated"
    /\ condition = Condition("received_at", "less_than_days", PyInt(2))
    /\ email = [BaseEmail EXCEPT !.received_at = PyIso(TRUE, MaxTick - 1)]
    /\ now = MaxTick
    /\ outcome = Return(TRUE)

C25_WitnessText ==
    /\ pc = "evaluated"
    /\ condition = Condition("subject", "not_equals", PyInt(1))
    /\ email = BaseEmail
    /\ outcome = Return(FALSE)

\* the Date header of the message is missing or does not read as a date
NoUsableDate(msg) ==
    /\ msg.kind = "message"
    /\ "date" \notin DOMAIN msg.headers \/ msg.headers.date.kind = "garbage"

\* an ISO-8601 timestamp without zone
Zoneless(v) == v.t = "iso" /\ ~v.aware

\* C23: a received_at that reads as ISO-8601 but has no zone makes
\* less_than_days and greater_than_days False for every day count; the
\* fetcher stores such a timestamp for a message whose Date header is missing
\* or unreadable, so these emails match no date condition.
C23_ZonelessNeverMatches ==
    /\ (/\ pc = "evaluated"
        /\ ~InvalidCondition(condition)
        /\ condition.field = "received_at"
        /\ condition.predicate \in DatePredicates
        /\ "received_at" \in DOMAIN email
        /\ Zoneless(email.received_at))
       => outcome = Return(FALSE)
    /\ (pc \in {"call", "validated", "evaluated"} /\ NoUsableDate(msg_data))
       => Zoneless(email.received_at)
    /\ (/\ pc = "evaluated"
        /\ NoUsableDate(msg_data)
        /\ condition.predicate \in DatePredicates)
       => outcome = Return(FALSE)

\* no Date header, fetched just now: not even "received less than two days ago"
C23_Witness ==
    /\ pc = "evaluated"
    /\ msg_data.kind = "message"
    /\ "date" \notin DOMAIN msg_data.headers
    /\ email.received_at = PyIso(FALSE, now)
    /\ condition = Condition("received_at", "less_than_days", PyStr(<<"2">>))
    /\ outcome = Return(FALSE)

----------------------------------------------------------------------------
(* Properties of _find_matching_emails (SpecMatch) and apply_rules (Spec) *)

\* the combined result for one email
Matches(mail, conds, ptype, clock) ==
    IF ptype = "ALL"
    THEN \A j \in 1..Len(conds) : evaluate_condition(mail, conds[j], clock) = Return(TRUE)
    ELSE /\ ptype = "ANY"
         /\ \E j \in 1..Len(conds) : evaluate_condition(mail, conds[j], clock) = Return(TRUE)

\* the elements of a list for which the combined result holds, in list order
Selected(mails, conds, ptype, clock) ==
    LET Hit(mail) == Matches(mail, conds, ptype, clock)
    IN  SelectSeq(mails, Hit)

AllValid(conds) == \A j \in 1..Len(conds) : ~InvalidCondition(conds[j])

\* C1: for valid conditions _find_matching_emails returns exactly the emails
\* for which the combined result holds: with ALL those for which every
\* condition is true, with ANY those for which at least one is; with no
\* conditions ALL returns every email and ANY none.
C1_MatchExactly ==
    (pc = "matched" /\ AllValid(conditions) /\ predicate_type \in {"ALL", "ANY"}) =>
        /\ outcome = Return(Selected(emails, conditions, predicate_type, now))
        /\ conditions = <<>> =>
               outcome = Return(IF predicate_type = "ALL" THEN emails ELSE <<>>)

C1_Witness ==
    /\ pc = "matched"
    /\ predicate_type = "ALL"
    /\ Len(conditions) = 2
    /\ conditions[1] # conditions[2]
    /\ Len(emails) = 2
    /\ outcome = Return(<<emails[2]>>)

\* out takes elements of inp at strictly increasing positions
IsSubsequence(out, inp) ==
    \E at \in [1..Len(out) -> 1..Len(inp)] :
        /\ \A k \in 1..Len(out) : out[k] = inp[at[k]]
        /\ \A k, l \in 1..Len(out) : k < l => at[k] < at[l]

\* C15: the list _find_matching_emails returns is a subsequence of its input:
\* every returned email is an element of the input, occurs at most as often
\* as there, and any two returned emails keep their input order.
C15_ResultIsSubsequence ==
    (pc = "matched" /\ Returned(outcome)) => IsSubsequence(outcome.val, emails)

C15_Witness ==
    /\ pc = "matched"
    /\ conditions # <<>>
    /\ Len(emails) = MaxEmails
    /\ emails[1] # emails[2]
    /\ outcome = Return(emails)

FirstInvalid(conds) ==
    conds[CHOOSE j \in 1..Len(conds) :
              /\ InvalidCondition(conds[j])
              /\ \A k \in 1..(j - 1) : ~InvalidCondition(conds[k])]

\* C19: _find_matching_emails evaluates every condition for every email,
\* without short-circuit: with at least one email and at least one invalid
\* condition it raises the validation error of the first invalid condition and
\* returns no list, for ALL and for ANY, whatever the other conditions give.
C19_NoShortCircuit ==
    (/\ pc = "matched"
     /\ predicate_type \in {"ALL", "ANY"}
     /\ emails # <<>>
     /\ ~AllValid(conditions))
    => /\ Raised(outcome)
       /\ outcome.exc = "RuleEngineError"
       /\ outcome = validate_condition(FirstInvalid(conditions))

\* ANY with an earlier condition already true
C19_Witness ==
    /\ pc = "matched"
    /\ predicate_type = "ANY"
    /\ Len(emails) = 1
    /\ emails[1].subject = PyStr(<<"B">>)
    /\ conditions = <<Condition("subject", "contains", PyStr(<<"B">>)),
                      Condition("subject", "contains", PyStr(<<>>))>>
    /\ Raised(outcome)

\* the rules file holds an object with the keys rules and actions
Loadable(file) ==
    /\ file.kind = "json"
    /\ file.top = "object"
    /\ {"rules", "actions"} \subseteq DOMAIN file.obj

HasInvalidRule(file) == Loadable(file) /\ ~AllValid(file.obj.rules)
FirstInvalidRule(file) ==
    file.obj.rules[CHOOSE j \in 1..Len(file.obj.rules) :
                       /\ InvalidCondition(file.obj.rules[j])
                       /\ \A k \in 1..(j - 1) : ~InvalidCondition(file.obj.rules[k])]

\* C7: every condition of the ruleset is validated before any email is
\* fetched or evaluated: with an invalid condition at any position the run
\* fails with the error of the first invalid condition, the emails table is
\* never read and perform_actions never invoked, whatever the table holds.
C7_ValidateBeforeFetch ==
    /\ HasInvalidRule(rule_file) =>
           /\ pc \in {"start", "loaded", "failed"}
           /\ reads = 0
           /\ calls = <<>>
           /\ pc = "failed" =>
                  /\ outcome.exc = "RuleEngineError"
                  /\ outcome = validate_condition(FirstInvalidRule(rule_file))
    /\ (reads > 0 \/ calls # <<>>) => Loadable(rule_file) /\ AllValid(rule_file.obj.rules)

C7_Witness ==
    /\ pc = "failed"
    /\ HasInvalidRule(rule_file)
    /\ Len(rule_file.obj.rules) = 2
    /\ ~InvalidCondition(rule_file.obj.rules[1])
    /\ Len(store) = 2
    /\ outcome = Raise("RuleEngineError", <<"Condition value cannot be empty">>)
    /\ reads = 0

\* C8: a failure of perform_actions on one matched email does not abort the
\* run: perform_actions is still invoked for every later matched email and
\* apply_rules returns normally, whichever of the invocations fail.
C8_ActionFailureTolerated ==
    /\ (\E k \in 1..Len(calls) : Raised(calls[k].out)) =>
           /\ pc \in {"acting", "done"}
           /\ ~Raised(outcome)
    /\ pc = "acting" =>
           /\ Len(calls) = idx - 1
           /\ idx <= Len(matched_emails) + 1
    /\ pc = "done" =>
           /\ outcome = Return(PyNone)
           /\ Len(calls) = Len(matched_emails)
           /\ \A k \in 1..Len(calls) : calls[k].email_id = matched_emails[k].id

C8_Witness ==
    /\ pc = "done"
    /\ Len(matched_emails) = 2
    /\ Raised(calls[1].out)
    /\ Returned(calls[2].out)
    /\ outcome = Return(PyNone)

\* C9: in a run that passes load and validation perform_actions is invoked
\* exactly once for each matched email and never for an unmatched one, in the
\* order of the match list, each time with the email's id and the full action
\* list of the ruleset; the match list is the one computed from the emails
\* read, whatever the actions executed since.
C9_OncePerMatchInOrder ==
    pc \in {"acting", "done"} =>
        /\ matched_emails = Selected(store, rule_file.obj.rules,
                                     GetOr(rule_file.obj, "predicate", "ALL"), now)
        /\ Len(calls) <= Len(matched_emails)
        /\ \A k \in 1..Len(calls) :
               /\ calls[k].email_id = matched_emails[k].id
               /\ calls[k].actions = rule_file.obj.actions
        /\ pc = "done" =>
               \A i \in 1..Len(store) :
                   Cardinality({k \in 1..Len(calls) : calls[k].email_id = store[i].id})
                       = IF Matches(store[i], rule_file.obj.rules,
                                    GetOr(rule_file.obj, "predicate", "ALL"), now)
                         THEN 1 ELSE 0

C9_Witness ==
    /\ pc = "done"
    /\ Len(store) = 2
    /\ matched_emails = <<store[2]>>
    /\ Len(calls) = 1
    /\ calls[1].email_id = store[2].id
    /\ Len(calls[1].actions) = 2

\* C10: load_rules raises RuleEngineError iff the file is missing, is no
\* JSON, holds no object, or the object lacks the key rules or the key
\* actions; it does not validate the conditions.  When load fails in
\* apply_rules the error reaches the caller, no email is fetched and no
\* action executed.
C10_LoadFailsIff ==
    /\ ~Loadable(rule_file) <=>
           (Raised(load_rules(rule_file)) /\ load_rules(rule_file).exc = "RuleEngineError")
    /\ Loadable(rule_file) => load_rules(rule_file) = Return(rule_file.obj)
    /\ ~Loadable(rule_file) =>
           /\ pc \in {"start", "failed"}
           /\ reads = 0
           /\ calls = <<>>
           /\ pc = "failed" => outcome = load_rules(rule_file)
    /\ (Loadable(rule_file) /\ pc # "start") =>
           (pc = "failed" => (outcome.exc = "DatabaseError" \/ HasInvalidRule(rule_file)))

C10_Witness ==
    /\ pc = "failed"
    /\ rule_file.kind = "json"
    /\ rule_file.top = "object"
    /\ DOMAIN rule_file.obj = {"predicate", "rules"}
    /\ Len(rule_file.obj.rules) = 1
    /\ Len(store) = 1
    /\ reads = 0
    /\ outcome = Raise("RuleEngineError",
                       <<"Failed to load rules", "Rules file must contain an 'actions' array">>)

\* the rules file, the emails table and, once they are bound, the ruleset's
\* parts and the emails read stay as they are; the provider changes only
\* within an invocation of perform_actions
FrameStep ==
    /\ rule_file' = rule_file
    /\ store' = store
    /\ pc # "start" => <<predicate_type, conditions, actions>>' = <<predicate_type, conditions, actions>>
    /\ pc # "validated" => emails' = emails
    /\ pc # "fetched" => matched_emails' = matched_emails
    /\ pc' \in {"fetched", "acting", "done"} => emails' = store'
    /\ gmail' # gmail => calls' # calls /\ SubSeq(calls', 1, Len(calls)) = calls

\* C16: a run of apply_rules changes neither its inputs nor the emails table:
\* the email records, the condition list and the action list stay as read and
\* the stored rows (is_read included) are never written, also when mark_read
\* or mark_unread was executed; the only effects are perform_actions calls.
C16_StoreAndInputsUnchanged == [][FrameStep]_vars

\* a stored unread email was marked read at the provider; its row still says unread
C16_Witness ==
    /\ pc = "done"
    /\ store # <<>>
    /\ store[1].is_read = PyBool(FALSE)
    /\ store[1].id \notin gmail.unread
    /\ \E k \in 1..Len(calls) : calls[k].email_id = store[1].id /\ Returned(calls[k].out)

\* C17: a ruleset document without predicate key combines its conditions as
\* ALL: the emails acted on are exactly those for which every condition is
\* true, the same as with "predicate": "ALL".
C17_DefaultPredicateAll ==
    (/\ pc \in {"acting", "done"}
     /\ "predicate" \notin DOMAIN rule_file.obj)
    => /\ matched_emails = Selected(store, rule_file.obj.rules, "ALL", now)
       /\ Return(matched_emails) = _find_matching_emails(store, rule_file.obj.rules, "ALL", now)
       /\ pc = "done" =>
              {calls[k].email_id : k \in 1..Len(calls)}
                  = {store[i].id : i \in {n \in 1..Len(store) :
                                              Matches(store[n], rule_file.obj.rules, "ALL", now)}}

\* two conditions, one of them true of the first email only: ANY would take both
C17_Witness ==
    /\ pc = "done"
    /\ "predicate" \notin DOMAIN rule_file.obj
    /\ Len(rule_file.obj.rules) = 2
    /\ Len(store) = 2
    /\ matched_emails = <<store[1]>>
    /\ Matches(store[2], rule_file.obj.rules, "ANY", now)
    /\ Len(calls) = 1

----------------------------------------------------------------------------
(* Properties of validate_action and perform_actions (SpecAction) *)

\* the text after the first colon
LabelOf(action) == SubSeq(action, Len(MOVE_ACTION_PREFIX) + 1, Len(action))

\* mark_read, mark_unread, or move: followed by a non-empty label name
WellFormedAction(action) ==
    \/ action \in {MARK_READ, MARK_UNREAD}
    \/ /\ Len(action) > Len(MOVE_ACTION_PREFIX)
       /\ SubSeq(action, 1, Len(MOVE_ACTION_PREFIX)) = MOVE_ACTION_PREFIX

\* C18: validate_action returns true iff the action is mark_read, mark_unread
\* or move: followed by a non-empty label name, false for every other string
\* (move: with an empty label included); these are exactly the actions that
\* _perform_single_action does not reject as unsupported or empty-label, that
\* is, does not fail on before any provider call.
C18_ValidateActionIff ==
    /\ pc = "validated" => outcome = Return(WellFormedAction(actions[1]))
    /\ (pc = "performed" /\ Len(actions) = 1) =>
           ((Raised(outcome.out) /\ outcome.n = 0) <=> ~validate_action(actions[1]).val)

C18_Witness ==
    /\ pc = "validated"
    /\ actions = <<MOVE_ACTION_PREFIX>>
    /\ outcome = Return(FALSE)

C18_WitnessRejected ==
    /\ pc = "performed"
    /\ actions = <<MOVE_ACTION_PREFIX>>
    /\ Raised(outcome.out)
    /\ outcome.n = 0

\* label names are matched without regard to case; of the names used here
\* w and b have another spelling
FoldedLabel(name) ==
    IF name = <<"W">> THEN <<"w">> ELSE IF name = <<"B">> THEN <<"b">> ELSE name

\* the provider after an action was applied to the message
Effect(g, id, action) ==
    IF action = MARK_READ THEN [g EXCEPT !.unread = @ \ {id}]
    ELSE IF action = MARK_UNREAD THEN [g EXCEPT !.unread = @ \cup {id}]
    ELSE LET name == LabelOf(action)
             known == {i \in 1..Len(g.labels) : FoldedLabel(g.labels[i]) = FoldedLabel(name)}
         IN  IF known = {}
             THEN [g EXCEPT !.labels = Append(@, name),
                            !.on = @ \cup {<<id, Len(g.labels) + 1>>}]
             ELSE [g EXCEPT !.on = @ \cup {<<id, CHOOSE i \in known : \A k \in known : i <= k>>}]

\* the provider after every action of a list was applied, in list order
RECURSIVE AppliedAll(_, _, _)
AppliedAll(g, id, acts) ==
    IF acts = <<>> THEN g
    ELSE AppliedAll(Effect(g, id, Head(acts)), id, Tail(acts))

\* provider requests an action takes: one modify for a mark action; for a
\* move the label listing, the creation of a label not yet known, one modify;
\* none for any other string
Requests(g, action) ==
    IF action \in {MARK_READ, MARK_UNREAD} THEN 1
    ELSE IF ~WellFormedAction(action) THEN 0
    ELSE IF \E i \in 1..Len(g.labels) : FoldedLabel(g.labels[i]) = FoldedLabel(LabelOf(action))
    THEN 2 ELSE 3

RECURSIVE RequestsAll(_, _, _)
RequestsAll(g, id, acts) ==
    IF acts = <<>> THEN 0
    ELSE Requests(g, Head(acts)) + RequestsAll(Effect(g, id, Head(acts)), id, Tail(acts))

\* what a failed attempt at an action may leave behind: nothing, or the label
\* it created before the message was to be labelled
Attempted(g, action) ==
    {g} \cup (IF WellFormedAction(action) /\ action \notin {MARK_READ, MARK_UNREAD}
              THEN {[g EXCEPT !.labels = Append(@, LabelOf(action))]}
              ELSE {})

\* C20: perform_actions applies the actions in list order and stops at the
\* first that fails, raising ActionError: every action before it has been
\* applied, none after it is attempted; an empty list makes no provider call
\* and returns normally.
C20_StopsAtFirstFailure ==
    pc = "performed" =>
        LET before == InitialGmail(store)
            id == email.id
        IN  /\ actions = <<>> => outcome = Step(before, 0, Return(PyNone))
            /\ Returned(outcome.out) =>
                   /\ outcome.out = Return(PyNone)
                   /\ outcome.gmail = AppliedAll(before, id, actions)
                   /\ outcome.n = RequestsAll(before, id, actions)
                   /\ \A k \in 1..Len(actions) : WellFormedAction(actions[k])
            /\ Raised(outcome.out) =>
                   /\ outcome.out.exc = "ActionError"
                   /\ \E k \in 1..Len(actions) :
                          LET sofar == AppliedAll(before, id, SubSeq(actions, 1, k - 1))
                          IN  /\ outcome.out.msg = <<"Action failed", actions[k]>>
                              /\ \A j \in 1..(k - 1) : WellFormedAction(actions[j])
                              /\ outcome.gmail \in Attempted(sofar, actions[k])
                              /\ outcome.n >= RequestsAll(before, id, SubSeq(actions, 1, k - 1))
                              /\ outcome.n <= RequestsAll(before, id, SubSeq(actions, 1, k - 1))
                                                  + Requests(sofar, actions[k])
            /\ gmail = outcome.gmail

\* the second of three actions fails: the first is applied, the third is not
C20_Witness ==
    /\ pc = "performed"
    /\ email.is_read = PyBool(TRUE)
    /\ actions = <<MARK_UNREAD, <<"a","r","c","h","i","v","e">>, MARK_READ>>
    /\ outcome.out = Raise("ActionError", <<"Action failed", <<"a","r","c","h","i","v","e">>>>)
    /\ email.id \in outcome.gmail.unread
    /\ outcome.n = 1

C20_WitnessEmpty ==
    /\ pc = "performed"
    /\ actions = <<>>
    /\ outcome.n = 0

----------------------------------------------------------------------------
(* SpecMatchRun: a call of _find_matching_emails on its own, or a run of    *)
(* apply_rules                                                             *)

InitMatchRun == InitMatch \/ Init
NextMatchRun == NextMatch \/ Next
SpecMatchRun == InitMatchRun /\ [][NextMatchRun]_vars

\* the ruleset names a predicate type the code does not know
UnknownPredicate(file) ==
    /\ Loadable(file)
    /\ "predicate" \in DOMAIN file.obj
    /\ file.obj.predicate \notin {"ALL", "ANY"}

\* C22 as stated: with a predicate type other than "ALL" and "ANY",
\* _find_matching_emails returns the empty list for every email list and every
\* condition list, and apply_rules completes without error and without any
\* perform_actions call.
C22_EmptyForEveryConditionList ==
    /\ (pc = "matched" /\ predicate_type \notin {"ALL", "ANY"}) => outcome = Return(<<>>)
    /\ (pc \in {"acting", "done"} /\ UnknownPredicate(rule_file)) =>
           matched_emails = <<>> /\ calls = <<>>

\* C22, amended: with a predicate type other than "ALL" and "ANY",
\* _find_matching_emails returns the empty list for every email list and every
\* list of valid conditions (with an invalid condition and at least one email
\* it raises that condition's validation error, as for ALL and ANY); a run of
\* apply_rules with such a predicate type matches nothing, calls
\* perform_actions for no email, and fails only where it fails for any
\* predicate type: on an invalid condition or a database error.
C22_UnknownPredicateMatchesNothing ==
    /\ (pc = "matched" /\ predicate_type \notin {"ALL", "ANY"}) =>
           IF emails = <<>> \/ AllValid(conditions)
           THEN outcome = Return(<<>>)
           ELSE outcome = validate_condition(FirstInvalid(conditions))
    /\ (pc \in {"acting", "done"} /\ UnknownPredicate(rule_file)) =>
           /\ predicate_type = rule_file.obj.predicate
           /\ matched_emails = <<>>
           /\ calls = <<>>
           /\ gmail = InitialGmail(store)
           /\ pc = "done" => outcome = Return(PyNone)
    /\ (pc = "failed" /\ UnknownPredicate(rule_file)) =>
           (outcome.exc = "DatabaseError" \/ HasInvalidRule(rule_file))

\* predicate "all", an unread email, the condition is_read equals false:
\* the run ends with no call
C22_Witness ==
    /\ pc = "done"
    /\ UnknownPredicate(rule_file)
    /\ rule_file.obj.predicate = "all"
    /\ store # <<>>
    /\ rule_file.obj.rules # <<>>
    /\ rule_file.obj.actions # <<>>
    /\ \A i \in 1..Len(store) : Matches(store[i], rule_file.obj.rules, "ALL", now)
    /\ calls = <<>>

C22_WitnessCall ==
    /\ pc = "matched"
    /\ predicate_type = "NONE"
    /\ emails # <<>>
    /\ conditions # <<>>
    /\ \A i \in 1..Len(emails) : Matches(emails[i], conditions, "ALL", now)
    /\ outcome = Return(<<>>)

----------------------------------------------------------------------------
(* Unsupported action tokens in a run of apply_rules (Spec) *)

HasUnsupported(acts) == \E i \in 1..Len(acts) : ~WellFormedAction(acts[i])
FirstUnsupported(acts) ==
    CHOOSE i \in 1..Len(acts) :
        ~WellFormedAction(acts[i]) /\ \A j \in 1..(i - 1) : WellFormedAction(acts[j])

\* a step in which perform_actions was invoked for the email at idx
Acted == pc = "acting" /\ Len(calls') = Len(calls) + 1

\* C24 as stated: an unsupported token in the action list passes load and
\* validation and apply_rules returns normally; for every matched email the
\* actions before the token are applied, the token makes the email's
\* execution fail, and the actions after it are applied to no email.
C24_PrefixAppliedForEveryEmail ==
    [][(Acted /\ HasUnsupported(actions)) =>
          LET u == FirstUnsupported(actions)
              id == matched_emails[idx].id
          IN  /\ calls'[Len(calls')].out = Raise("ActionError", <<"Action failed", actions[u]>>)
              /\ gmail' = AppliedAll(gmail, id, SubSeq(actions, 1, u - 1))]_vars

\* the execution for one email stopped at an action up to the unsupported
\* token: what was listed before that action is applied, nothing after it
StoppedByToken ==
    LET u == FirstUnsupported(actions)
        id == matched_emails[idx].id
        out == calls'[Len(calls')].out
    IN  /\ Raised(out)
        /\ out.exc = "ActionError"
        /\ \E j \in 1..u :
               LET sofar == AppliedAll(gmail, id, SubSeq(actions, 1, j - 1))
               IN  /\ out.msg = <<"Action failed", actions[j]>>
                   /\ gmail' \in Attempted(sofar, actions[j])
        /\ out.msg = <<"Action failed", actions[u]>> =>
               gmail' = AppliedAll(gmail, id, SubSeq(actions, 1, u - 1))
        /\ pc' = "acting"

\* C24, amended: an unsupported token in the action list passes load and
\* validation and apply_rules returns normally; for every matched email the
\* execution fails at the token or, when a provider request of an earlier
\* action fails, at that action; the actions before the failing one are
\* applied (all those before the token when no provider request fails), and
\* the actions after the token are applied to no email.
C24_UnsupportedTokenStopsEachEmail ==
    /\ []((pc = "failed" /\ Loadable(rule_file) /\ HasUnsupported(rule_file.obj.actions)) =>
            (outcome.exc = "DatabaseError" \/ HasInvalidRule(rule_file)))
    /\ []((pc = "done" /\ HasUnsupported(actions)) =>
            /\ outcome = Return(PyNone)
            /\ Len(calls) = Len(matched_emails)
            /\ \A k \in 1..Len(calls) : Raised(calls[k].out))
    /\ [][(Acted /\ HasUnsupported(actions)) => StoppedByToken]_vars

\* mark_read, an unsupported token, mark_unread on two matched unread emails:
\* both calls fail at the token, both emails end up read
C24_Witness ==
    /\ pc = "done"
    /\ actions = <<MARK_READ, <<"a","r","c","h","i","v","e">>, MARK_UNREAD>>
    /\ Len(matched_emails) = 2
    /\ \A k \in 1..2 :
           /\ matched_emails[k].is_read = PyBool(FALSE)
           /\ calls[k].out = Raise("ActionError", <<"Action failed", actions[2]>>)
    /\ gmail.unread = {}
    /\ outcome = Return(PyNone)

----------------------------------------------------------------------------
(* Labels after a list of moves (SpecAction) *)

\* every action of the list is a move to a named label
AllMoves(acts) ==
    \A i \in 1..Len(acts) :
        WellFormedAction(acts[i]) /\ acts[i] \notin {MARK_READ, MARK_UNREAD}

\* the list of moves was performed and no action of it failed
MovesSucceeded ==
    /\ pc = "performed"
    /\ actions # <<>>
    /\ AllMoves(actions)
    /\ ~Raised(outcome.out)

\* C21: get_or_create_label creates a label only when no existing label has
\* the same name ignoring case and otherwise returns the existing label's id:
\* after successful moves performed one after another no label the moves
\* created shares its case-folded name with another label, and moves under
\* names that differ only in case put the same label id on the email.
C21_OneLabelPerFoldedName ==
    MovesSucceeded =>
        LET before == InitialGmail(store).labels
            labels == gmail.labels
            named(a) == {i \in 1..Len(labels) : FoldedLabel(labels[i]) = FoldedLabel(LabelOf(a))}
        IN  /\ SubSeq(labels, 1, Len(before)) = before
            /\ \A j \in (Len(before) + 1)..Len(labels) :
                   /\ \E k \in 1..Len(actions) : LabelOf(actions[k]) = labels[j]
                   /\ \A i \in 1..Len(labels) :
                          i # j => FoldedLabel(labels[i]) # FoldedLabel(labels[j])
            /\ \A k \in 1..Len(actions) :
                   \E i \in 1..Len(labels) :
                       /\ named(actions[k]) = {i}
                       /\ <<email.id, i>> \in gmail.on
            /\ gmail.on = {<<email.id, i>> : i \in UNION {named(actions[k]) : k \in 1..Len(actions)}}

\* moves to b, B and W: one label b is created, and the email carries it and
\* the label w that existed
C21_Witness ==
    /\ MovesSucceeded
    /\ actions = <<MOVE_ACTION_PREFIX \o <<"b">>, MOVE_ACTION_PREFIX \o <<"B">>,
                   MOVE_ACTION_PREFIX \o <<"W">> >>
    /\ gmail.labels = << <<"w">>, <<"b">> >>
    /\ gmail.on = {<<email.id, 1>>, <<email.id, 2>>}

====
